---------------------------- MODULE Spec2Model ----------------------------
(***************************************************************************)
(* Model of the URL shortener's resolution and click-accounting engine     *)
(* (internal/services: URLService, CacheWarmer) over a durable store       *)
(* (PostgreSQL through gorm) and a fast cache (Redis through go-redis v8). *)
(*                                                                         *)
(* Time is counted in minutes.  A short code is a sequence of characters.  *)
(* Every request handler runs in one of the request slots of Procs and is  *)
(* split at each store or cache round trip that another request can        *)
(* interleave with.                                                        *)
(***************************************************************************)
EXTENDS Integers, Sequences, FiniteSets, TLC

(***************************************************************************)
(* Program constants                                                       *)
(***************************************************************************)
\* time.Minute and time.Hour expressed in the model's unit, the minute
Minute == 1
Hour == 60
\* 5*time.Minute: lifetime of the NOT_FOUND / EXPIRED cache markers
SentinelTTL == 5 * Minute
\* 24*time.Hour: lifetime of the mapping of a link without expiry
DefaultCacheTTL == 24 * Hour
\* 30*24*time.Hour: lifetime of a click counter, renewed by every click
ClicksTTL == 30 * 24 * Hour
\* 168 hours: default expiry of an anonymous link
DefaultExpiryHours == 168
\* newClicks%10 == 0 triggers a flush of 10 clicks
BatchSize == 10
\* attempts of generateUniqueShortCode
MaxAttempts == 10
\* Limit(1000) of the cache warmer's query
WarmLimit == 1000
\* pagination: default and maximum page size
DefaultPerPage == 10
MaxPerPage == 100
\* RateLimiterConfig of main.go, and the literals of RateLimiterMiddleware:
\* the counter's window, the violations that block and their window
RequestsPerMinute == 100
BlockDuration == 30 * Minute
Window == Minute
ViolationsToBlock == 3
ViolationsTTL == 10 * Minute
\* AuthRateLimiterMiddleware: attempts, their window, and the block's TTL
AuthAttempts == 5
AuthWindow == 15 * Minute
AuthBlockTTL == 30 * Minute
\* HTTP statuses
StatusOK == 200
StatusTooManyRequests == 429
\* [:6] of generateShortCode, and max=20 of CreateURLRequest.ShortCode
GeneratedLen == 6
MaxCodeLen == 20

(***************************************************************************)
(* Bounds of the model                                                     *)
(***************************************************************************)
\* links ever created (uuid.New() never repeats: ids are 1..MaxLinks)
MaxLinks == 2
\* resolutions begun, where clicks are counted and resolutions have a bound
\* of their own
MaxResolves == 11
\* clock advances
MaxTicks == 1
\* calls of the service begun, and runs of the cache warmer
MaxCalls == 3
\* violations of the global rate limit counted for the client IP
MaxViolations == 4
\* clock advances where expiry is followed: one more, to pass an expiry
\* after the entries cached before it have lapsed
ExpiryTicks == MaxTicks + 1

(***************************************************************************)
(* Values                                                                  *)
(***************************************************************************)
Procs == {1, 2}
Users == {"u1", "u2"}
NoUser == "nil"
NoTime == -1
\* go-redis: a key written without expiration
NoTTL == -1
NoEntry == [val |-> "<miss>", exp |-> NoTTL]
NoCount == [n |-> 0, exp |-> NoTTL]

\* the marker strings GetLongURL writes into url:<code>
NotFoundMark == "NOT_FOUND"
ExpiredMark == "EXPIRED"
Sentinels == {NotFoundMark, ExpiredMark}

\* errors of internal/types
ErrNone == "ok"
ErrValidation == "ValidationError"
ErrInvalidShortCode == "ErrInvalidShortCode"
ErrShortCodeTaken == "ErrShortCodeTaken"
ErrURLNotFound == "ErrURLNotFound"
ErrGenerateShortCode == "ErrGenerateShortCode"
\* the store's own error for a violated unique index
ErrDuplicateKey == "ErrDuplicateKey"
\* the error of a go-redis command that could not reach the server
ErrRedis == "redis: connection refused"

LongURLInputs == {"", "https://a.example", "https://b.example"}
Promo == <<"p", "r", "o", "m", "o", "1">>
PromoUpper == <<"P", "r", "o", "m", "o", "1">>
BadCode == <<"p", "r", "!">>
\* three alphanumeric characters
ShortCustom == <<"a", "b", "x">>
GenOther == <<"a", "B", "3", "x", "Y", "z">>
\* customShortCode as passed by the caller; <<>> asks for a generated code
CustomInputs == {<<>>, Promo, PromoUpper, BadCode, ShortCustom}
\* what 8 random bytes can encode to, among the codes the model follows
GenCodes == {Promo, GenOther}
UrlsPrefix == <<"u", "r", "l", "s", "/">>
ResolveInputs == {Promo, GenOther, UrlsPrefix \o Promo}
ExpiryInputs == {0, 1}
\* expiry_hours of the public creation requests followed
RequestedHours == 1
\* page and per_page as requested: below, at and above the limits
PageInputs == {-1, 0, 1, 2}
PerPageInputs == {-1, 0, 1, 2, MaxPerPage, MaxPerPage + 1, 1000}
TickSteps == {SentinelTTL, Hour}
\* clock advances at the rate limiters
RateSteps == {Window, BlockDuration}
AuthSteps == {AuthWindow, AuthBlockTTL}
LongSteps == {SentinelTTL, 2 * Hour}

(***************************************************************************)
(* Pure helpers                                                            *)
(***************************************************************************)
UpperToLower == [c \in {"P", "B", "Y"} |-> CASE c = "P" -> "p" [] c = "B" -> "b" [] c = "Y" -> "y"]
LowerChar(c) == IF c \in DOMAIN UpperToLower THEN UpperToLower[c] ELSE c
\* strings.ToLower
ToLower(s) == [i \in DOMAIN s |-> LowerChar(s[i])]

Letters == {"a", "b", "m", "o", "p", "r", "x", "y", "z", "l", "s", "u", "B", "P", "Y"}
Digits == {"1", "3"}
\* regexp ^[a-zA-Z0-9-_]+$
PatternChars == Letters \cup Digits \cup {"-", "_"}
MatchString(s) == Len(s) >= 1 /\ \A i \in DOMAIN s : s[i] \in PatternChars

\* strings.TrimPrefix
TrimPrefix(s, pre) ==
    IF Len(s) >= Len(pre) /\ SubSeq(s, 1, Len(pre)) = pre
    THEN SubSeq(s, Len(pre) + 1, Len(s))
    ELSE s

\* every code a cache key can be made of
CodeSpace == {ToLower(c) : c \in {x \in CustomInputs : x # <<>> /\ MatchString(x)}}
             \cup GenCodes \cup {TrimPrefix(c, UrlsPrefix) : c \in ResolveInputs}


(***************************************************************************)
(* State                                                                   *)
(***************************************************************************)
VARIABLES
    now,            \* the wall clock, in minutes
    used,           \* what has been spent of the bounds: calls begun, clock advances
    db,             \* the urls table: a set of models.URL records
    nextId,         \* the next fresh uuid
    urlCache,       \* Redis keys url:<code>
    clicksCache,    \* Redis keys clicks:<code>
    proc,           \* the request each slot is handling, and where it stands
    flushTasks,     \* per code, the flush goroutines dispatched and not yet run
    expiredDeletes, \* ids of the deleteExpiredURL goroutines not yet run
    warm,           \* the cache warmer: idle, or holding its queued pipeline
    resolved,       \* per link id, the GetLongURL calls that returned its URL
    gone,           \* the links removed from the store, and by what
    cacheUp,        \* whether Redis answers the client's commands
    rate,           \* Redis keys rate_limit:* of the one client IP followed
    users,          \* the users table: the one registered account
    last            \* the call that returned in the step just taken, if any

vars == <<now, used, db, nextId, urlCache, clicksCache, proc, flushTasks,
          expiredDeletes, warm, resolved, gone, cacheUp, rate, users, last>>

\* the state of the URL service, and that of the middleware and the auth
\* service
urlVars == <<db, nextId, urlCache, clicksCache, flushTasks, expiredDeletes, warm,
             resolved, gone>>
gateVars == <<rate, users>>

\* a Redis key that does not exist
NoKey == [n |-> 0, exp |-> NoTTL]
\* no rate_limit:* key exists.  admitted is not a key: the requests the
\* global limiter has let through while rate_limit:requests:<ip> has lived
NoRate == [requests |-> NoKey, violations |-> NoKey, blocked |-> NoKey,
           auth |-> NoKey, authBlocked |-> NoKey, admitted |-> 0]
\* reset tokens are fresh UUIDs: the n-th one generated is n, and 0 is NULL
Tokens == 1..(MaxCalls + 1)
\* the account has no reset token.  issued and succeeded are not columns: the
\* tokens generated so far, and per token the ResetPassword calls that
\* returned nil
NoReset == [password |-> "old", resetToken |-> 0, resetTokenExpiry |-> NoTime,
            issued |-> 0, succeeded |-> [t \in Tokens |-> 0]]

Ids == 1..MaxLinks
Idle == [op |-> "idle"]
NoRet == [op |-> "none"]
WarmIdle == [pc |-> "idle", batch |-> {}]

\* the request slots are alike, and a request takes the first free one
FreeSlot(p) == proc[p] = Idle /\ \A q \in Procs : q < p => proc[q] # Idle

Begun(p, maxCalls) ==
    /\ FreeSlot(p)
    /\ used.calls < maxCalls
    /\ used' = [used EXCEPT !.calls = @ + 1]

Init ==
    /\ now = 0
    /\ used = [calls |-> 0, ticks |-> 0, resolves |-> 0]
    /\ db = {}
    /\ nextId = 1
    /\ urlCache = [c \in CodeSpace |-> NoEntry]
    /\ clicksCache = [c \in CodeSpace |-> NoCount]
    /\ proc = [p \in Procs |-> Idle]
    /\ flushTasks = [c \in CodeSpace |-> 0]
    /\ expiredDeletes = {}
    /\ warm = WarmIdle
    /\ resolved = [i \in Ids |-> 0]
    /\ gone = {}
    /\ cacheUp = TRUE
    /\ rate = NoRate
    /\ users = NoReset
    /\ last = NoRet

(***************************************************************************)
(* The fast cache (go-redis v8 against Redis)                              *)
(***************************************************************************)
\* client.Set(key, value, expiration): go-redis v8 sends EX/PX only when
\* expiration > 0, so a zero or negative duration stores the key without TTL
RedisSet(cache, c, v, ttl) ==
    [cache EXCEPT ![c] = [val |-> v, exp |-> IF ttl > 0 THEN now + ttl ELSE NoTTL]]
\* client.Del(key)
RedisDel(cache, c, none) == [cache EXCEPT ![c] = none]
\* a Ping that is answered whatever the state of the cache, against which
\* C17 is contrasted
PingAlways == TRUE
\* client.Ping() got its answer
Ping == cacheUp
\* client.Get(key) found the key
RedisHit(c) == urlCache[c] # NoEntry
\* client.Exists(key) > 0
RedisExists(c) == urlCache[c] # NoEntry
\* an increment left to a goroutine that has not run yet, against which C32
\* is contrasted
IncrDeferred(c) == clicksCache

\* client.Incr(key) followed by client.Expire(key, 30 days)
RedisIncr(c) ==
    [clicksCache EXCEPT ![c] = [n |-> clicksCache[c].n + 1, exp |-> now + ClicksTTL]]
\* a key whose TTL has run out at time t is gone
Expired(e, t) == e.exp # NoTTL /\ e.exp <= t

(***************************************************************************)
(* The durable store                                                       *)
(***************************************************************************)
\* WHERE short_code = ? AND deleted_at IS NULL (records are hard-deleted)
ByCode(c) == {r \in db : r.code = c}
ById(i) == {r \in db : r.id = i}
\* URL.IsExpired: time.Now().After(*u.ExpiresAt)
IsExpired(r) == r.expiresAt # NoTime /\ now > r.expiresAt
\* a store without the unique index, against which C9 is contrasted
NoUniqueIndex(c) == FALSE
\* what is remembered of a removed record: its id, code and long URL, and
\* whether DeleteURL ("deleted") or deleteExpiredURL ("expired") removed it
Removed(r, how) == [id |-> r.id, code |-> r.code, longURL |-> r.longURL, how |-> how]
\* the ways links under code c have been removed so far
GoneHow(c) == {g.how : g \in {x \in gone : x.code = c}}
\* the uniqueIndex on short_code (and on short_url, a function of it)
UniqueViolation(c) == ByCode(c) # {}

\* a probe that finds every code free, against which C10 is contrasted
NeverTaken(c) == FALSE
\* URLService.isShortCodeTaken: cache existence first, then the store's count
isShortCodeTaken(c) == (cacheUp /\ RedisExists(c)) \/ Cardinality(ByCode(c)) > 0

(***************************************************************************)
(* CreateShortURL / CreateAnonymousURL                                     *)
(***************************************************************************)
\* an expiry given to every link, owned or not, against which C20 is
\* contrasted
ExpiryForAll(anon, hours) ==
    IF hours > 0 THEN now + hours * Hour ELSE now + DefaultExpiryHours * Hour
\* the record both creation paths build; anonymous links get
\* expiresAt = now + expiryHours hours, 168 hours when expiryHours <= 0
ExpiryOf(anon, hours) ==
    IF ~anon THEN NoTime
    ELSE IF hours > 0 THEN now + hours * Hour ELSE now + DefaultExpiryHours * Hour
NewURL(user, longURL, code, anon, hours) ==
    [id |-> nextId, user |-> user, longURL |-> longURL, code |-> code, clicks |-> 0,
     anon |-> anon, expiresAt |-> ExpiryOf(anon, hours), createdAt |-> now,
     \* not columns: the longURL the link was created with, and what
     \* clicks:<code> held when it was created
     orig |-> longURL, base |-> clicksCache[code].n]
\* the TTL of the mapping written with the record
CreateTTL(u) == IF u.expiresAt # NoTime THEN u.expiresAt - now ELSE DefaultCacheTTL

CreateRet(code, custom, err, id, follows) ==
    [op |-> "create", code |-> code, custom |-> custom, err |-> err, id |-> id,
     follows |-> follows]

\* the call is entered: validation of longURL and of the custom code,
\* isShortCodeTaken for a custom code.  user = NoUser is CreateAnonymousURL.
CreateBegin(p, user, longURL, custom, hours, maxLinks, maxCalls) ==
    /\ Begun(p, maxCalls)
    /\ nextId <= maxLinks
    /\ LET code == ToLower(custom)
           \* this call directly follows a successful creation of the same code
           follows == /\ last.op = "create" /\ last.err = ErrNone
                      /\ last.custom /\ custom # <<>> /\ last.code = code
           fail(e) == /\ last' = CreateRet(code, custom # <<>>, e, 0, follows)
                      /\ proc' = proc
           go(pc, c) == /\ proc' = [proc EXCEPT ![p] =
                              [op |-> "create", pc |-> pc, user |-> user,
                               longURL |-> longURL, code |-> c, hours |-> hours,
                               custom |-> custom # <<>>, i |-> 0, follows |-> follows]]
                        /\ last' = NoRet
       IN  IF longURL = "" THEN fail(ErrValidation)
           ELSE IF custom # <<>>
                THEN IF ~MatchString(custom) THEN fail(ErrInvalidShortCode)
                     ELSE IF isShortCodeTaken(code) THEN fail(ErrShortCodeTaken)
                     ELSE go("insert", code)
                ELSE go("gen", <<>>)
    /\ UNCHANGED <<now, db, nextId, urlCache, clicksCache, flushTasks,
                   expiredDeletes, warm, resolved, gone, cacheUp, gateVars>>

\* one attempt of generateUniqueShortCode: a random code, probed
CreateGen(p, code) ==
    /\ proc[p].op = "create" /\ proc[p].pc = "gen"
    /\ LET q == proc[p]
       IN  IF ~isShortCodeTaken(code)
           THEN /\ proc' = [proc EXCEPT ![p] = [q EXCEPT !.pc = "insert", !.code = code]]
                /\ last' = NoRet
           ELSE IF q.i + 1 < MaxAttempts
           THEN /\ proc' = [proc EXCEPT ![p] = [q EXCEPT !.i = q.i + 1]]
                /\ last' = NoRet
           ELSE /\ proc' = [proc EXCEPT ![p] = Idle]
                /\ last' = CreateRet(<<>>, FALSE, ErrGenerateShortCode, 0, FALSE)
    /\ UNCHANGED <<now, used, db, nextId, urlCache, clicksCache, flushTasks,
                   expiredDeletes, warm, resolved, gone, cacheUp, gateVars>>

\* an attempt of generateUniqueShortCode whose probe fails: the cache
\* does not hold the key and the Count of the store returns an error, so
\* isShortCodeTaken returns (false, err) and the code is returned
CreateGenErr(p, code) ==
    /\ proc[p].op = "create" /\ proc[p].pc = "gen"
    /\ ~(cacheUp /\ RedisExists(code))
    /\ proc' = [proc EXCEPT ![p] = [proc[p] EXCEPT !.pc = "insert", !.code = code]]
    /\ last' = NoRet
    /\ UNCHANGED <<now, used, db, nextId, urlCache, clicksCache, flushTasks,
                   expiredDeletes, warm, resolved, gone, cacheUp, gateVars>>

\* the transaction: tx.Create(url), then the cache write, then commit; an
\* error of either rolls the transaction back and is returned
CreateInsert(p) ==
    /\ proc[p].op = "create" /\ proc[p].pc = "insert"
    /\ LET q == proc[p]
           u == NewURL(q.user, q.longURL, q.code, q.user = NoUser, q.hours)
       IN  IF UniqueViolation(q.code)
           THEN /\ last' = CreateRet(q.code, q.custom, ErrDuplicateKey, 0, q.follows)
                /\ UNCHANGED <<db, nextId, urlCache>>
           ELSE IF ~cacheUp
           THEN \* the closure returns Set's error: the insert is rolled back
                /\ last' = CreateRet(q.code, q.custom, ErrRedis, 0, q.follows)
                /\ UNCHANGED <<db, nextId, urlCache>>
           ELSE /\ db' = db \cup {u}
                /\ nextId' = nextId + 1
                /\ urlCache' = RedisSet(urlCache, q.code, q.longURL, CreateTTL(u))
                /\ last' = CreateRet(q.code, q.custom, ErrNone, u.id, q.follows)
    /\ proc' = [proc EXCEPT ![p] = Idle]
    /\ UNCHANGED <<now, used, clicksCache, flushTasks, expiredDeletes, warm,
                   resolved, gone, cacheUp, gateVars>>

\* URLHandler.CreateAnonymousURL (POST /api/urls): the request body is bound
\* to CreateURLRequest, which has no expiry_hours, and the service is called
\* with the literal 168
PassedHours(expiryHours) == DefaultExpiryHours
CreateAnonymousHandler(p, longURL, custom, expiryHours, maxLinks, maxCalls) ==
    CreateBegin(p, NoUser, longURL, custom, PassedHours(expiryHours), maxLinks, maxCalls)

(***************************************************************************)
(* GetLongURL and incrementClickCount                                      *)
(***************************************************************************)
ResolveRet(q, val, err) ==
    [op |-> "resolve", code |-> q.code, val |-> val, err |-> err,
     lnk |-> q.lnk, exp0 |-> q.exp0, hit |-> q.hit, gone0 |-> q.gone0,
     outage |-> q.outage]

\* the link a returned value is a resolution of, if any
Credit(code, val) == {r.id : r \in {x \in ByCode(code) : x.longURL = val}}

\* TrimPrefix and the cache lookup; a Get that fails is taken as a miss.
\* outage records whether every cache command of the call has failed so far.
ResolveGet(p, input, budget, most) ==
    /\ FreeSlot(p)
    /\ used[budget] < most
    /\ used' = [used EXCEPT ![budget] = @ + 1]
    /\ LET code == TrimPrefix(input, UrlsPrefix)
           here == ByCode(code)
           got == IF cacheUp THEN urlCache[code] ELSE NoEntry
           q == [op |-> "resolve", code |-> code, val |-> got.val,
                 hit |-> got.val, ea |-> NoTime, outage |-> ~cacheUp,
                 pc |-> IF cacheUp /\ RedisHit(code) THEN "incr" ELSE "query",
                 lnk |-> IF here = {} THEN 0 ELSE (CHOOSE r \in here : TRUE).id,
                 exp0 |-> \E r \in here : IsExpired(r),
                 gone0 |-> GoneHow(code)]
       IN  proc' = [proc EXCEPT ![p] = q]
    /\ last' = NoRet
    /\ UNCHANGED <<now, db, nextId, urlCache, clicksCache, flushTasks,
                   expiredDeletes, warm, resolved, gone, cacheUp, gateVars>>

\* cache miss: the store is read; an expired record is handed to a
\* deleteExpiredURL goroutine
ResolveQuery(p) ==
    /\ proc[p].op = "resolve" /\ proc[p].pc = "query"
    /\ LET q == proc[p]
           found == ByCode(q.code)
       IN  IF found = {}
           THEN /\ proc' = [proc EXCEPT ![p] = [q EXCEPT !.pc = "set", !.val = NotFoundMark]]
                /\ UNCHANGED expiredDeletes
           ELSE LET r == CHOOSE x \in found : TRUE
                IN  IF IsExpired(r)
                    THEN /\ expiredDeletes' = expiredDeletes \cup {r.id}
                         /\ proc' = [proc EXCEPT ![p] =
                                        [q EXCEPT !.pc = "set", !.val = ExpiredMark]]
                    ELSE /\ proc' = [proc EXCEPT ![p] =
                                        [q EXCEPT !.pc = "set", !.val = r.longURL,
                                                  !.ea = r.expiresAt]]
                         /\ UNCHANGED expiredDeletes
    /\ last' = NoRet
    /\ UNCHANGED <<now, used, db, nextId, urlCache, clicksCache, flushTasks,
                   warm, resolved, gone, cacheUp, gateVars>>


\* the write after a miss: a marker for 5 minutes, or the mapping until the
\* link's expiry (24 hours without one); the error of Set is not looked at
MappingTTL(ea) == IF ea # NoTime THEN ea - now ELSE DefaultCacheTTL
ResolveSet(p) ==
    /\ proc[p].op = "resolve" /\ proc[p].pc = "set"
    /\ LET q == proc[p]
           w == [q EXCEPT !.outage = @ /\ ~cacheUp]
           set(ttl) == urlCache' = IF cacheUp
                                   THEN RedisSet(urlCache, q.code, q.val, ttl)
                                   ELSE urlCache
       IN  IF q.val \in Sentinels
           THEN /\ set(SentinelTTL)
                /\ proc' = [proc EXCEPT ![p] = Idle]
                /\ last' = ResolveRet(w, "", ErrURLNotFound)
           ELSE /\ set(MappingTTL(q.ea))
                /\ proc' = [proc EXCEPT ![p] = [w EXCEPT !.pc = "incr"]]
                /\ last' = NoRet
    /\ UNCHANGED <<now, used, db, nextId, clicksCache, flushTasks, expiredDeletes,
                   warm, resolved, gone, cacheUp, gateVars>>

\* a dispatch at every counter value from the batch size on, against which
\* C30 is contrasted
FlushFromBatch(n) == n >= BatchSize

\* whether a counter value dispatches a flush goroutine
FlushDue(n) == n % BatchSize = 0

\* incrementClickCount, which returns at once when the Ping fails, then the
\* return of the value got from the cache or the store
ResolveIncr(p) ==
    /\ proc[p].op = "resolve" /\ proc[p].pc = "incr"
    /\ LET q == proc[p]
           n == clicksCache[q.code].n + 1
           w == [q EXCEPT !.outage = @ /\ ~cacheUp]
       IN  /\ clicksCache' = IF Ping THEN RedisIncr(q.code) ELSE clicksCache
           /\ flushTasks' = IF Ping /\ FlushDue(n)
                            THEN [flushTasks EXCEPT ![q.code] = @ + 1]
                            ELSE flushTasks
           /\ resolved' = [i \in Ids |->
                              IF i \in Credit(q.code, q.val) THEN resolved[i] + 1
                              ELSE resolved[i]]
           /\ last' = ResolveRet(w, q.val, ErrNone)
    /\ proc' = [proc EXCEPT ![p] = Idle]
    /\ UNCHANGED <<now, used, db, nextId, urlCache, expiredDeletes, warm, gone,
                   cacheUp, gateVars>>

\* an UPDATE that brings the stored clicks up to the cached counter, against
\* which C31 is contrasted
AddCumulative(r, c) == IF r.code = c THEN [r EXCEPT !.clicks = clicksCache[c].n] ELSE r

\* UPDATE urls SET clicks = clicks + 10 WHERE short_code = ?
AddClicks(r, c) == IF r.code = c THEN [r EXCEPT !.clicks = @ + BatchSize] ELSE r

\* a flush goroutine runs
FlushTask(c) ==
    /\ flushTasks[c] > 0
    /\ flushTasks' = [flushTasks EXCEPT ![c] = @ - 1]
    /\ db' = {AddClicks(r, c) : r \in db}
    /\ last' = NoRet
    /\ UNCHANGED <<now, used, nextId, urlCache, clicksCache, proc, expiredDeletes,
                   warm, resolved, gone, cacheUp, gateVars>>

\* a flush goroutine runs while the store cannot be reached: the UPDATE
\* returns an error, which is printed, and the goroutine ends
FlushFail(c) ==
    /\ flushTasks[c] > 0
    /\ flushTasks' = [flushTasks EXCEPT ![c] = @ - 1]
    /\ last' = NoRet
    /\ UNCHANGED <<now, used, db, nextId, urlCache, clicksCache, proc, expiredDeletes,
                   warm, resolved, gone, cacheUp, gateVars>>

\* a deleteExpiredURL goroutine whose DELETE removes nothing, against which
\* C22 is contrasted
DeleteExpiredLost(i) ==
    /\ i \in expiredDeletes
    /\ expiredDeletes' = expiredDeletes \ {i}
    /\ last' = NoRet
    /\ UNCHANGED <<now, used, db, nextId, urlCache, clicksCache, proc, flushTasks,
                   warm, resolved, gone, cacheUp, gateVars>>

\* a deleteExpiredURL goroutine runs: DELETE FROM urls WHERE id = ?
DeleteExpiredTask(i) ==
    /\ i \in expiredDeletes
    /\ expiredDeletes' = expiredDeletes \ {i}
    /\ db' = db \ ById(i)
    /\ gone' = gone \cup {Removed(r, "expired") : r \in ById(i)}
    /\ last' = NoRet
    /\ UNCHANGED <<now, used, nextId, urlCache, clicksCache, proc, flushTasks,
                   warm, resolved, cacheUp, gateVars>>

(***************************************************************************)
(* DeleteURL                                                               *)
(***************************************************************************)
\* a lookup by id alone, against which C14 is contrasted
AnyOwner(i, user) == ById(i)
\* WHERE id = ? AND user_id = ? AND deleted_at IS NULL
Owned(i, user) == {r \in db : r.id = i /\ r.user = user}

\* inside the transaction: the lookup, the hard delete (not yet committed)
\* and the pipeline that drops url:<code> and clicks:<code>
DeleteBegin(p, user, i, maxCalls) ==
    /\ Begun(p, maxCalls)
    /\ IF Owned(i, user) = {}
       THEN /\ last' = [op |-> "delete", id |-> i, user |-> user, err |-> ErrURLNotFound]
            /\ UNCHANGED <<proc, urlCache, clicksCache>>
       ELSE IF ~cacheUp
       THEN \* the closure returns Exec's error: the delete is rolled back
            /\ last' = [op |-> "delete", id |-> i, user |-> user, err |-> ErrRedis]
            /\ UNCHANGED <<proc, urlCache, clicksCache>>
       ELSE LET r == CHOOSE x \in Owned(i, user) : TRUE
            IN  /\ urlCache' = RedisDel(urlCache, r.code, NoEntry)
                /\ clicksCache' = RedisDel(clicksCache, r.code, NoCount)
                /\ proc' = [proc EXCEPT ![p] =
                               [op |-> "delete", pc |-> "commit", id |-> i,
                                user |-> user, code |-> r.code]]
                /\ last' = NoRet
    /\ UNCHANGED <<now, db, nextId, flushTasks, expiredDeletes, warm, resolved, gone,
                   cacheUp, gateVars>>

\* the transaction commits: the record is gone for everyone
DeleteCommit(p) ==
    /\ proc[p].op = "delete" /\ proc[p].pc = "commit"
    /\ db' = db \ ById(proc[p].id)
    /\ last' = [op |-> "delete", id |-> proc[p].id, user |-> proc[p].user, err |-> ErrNone]
    /\ proc' = [proc EXCEPT ![p] = Idle]
    /\ gone' = gone \cup {Removed(r, "deleted") : r \in ById(proc[p].id)}
    /\ UNCHANGED <<now, used, nextId, urlCache, clicksCache, flushTasks,
                   expiredDeletes, warm, resolved, cacheUp, gateVars>>

(***************************************************************************)
(* UpdateURL                                                               *)
(***************************************************************************)
\* the record is read into memory
UpdateBegin(p, user, i, longURL, maxCalls) ==
    /\ Begun(p, maxCalls)
    /\ IF Owned(i, user) = {}
       THEN /\ last' = [op |-> "update", id |-> i, err |-> ErrURLNotFound]
            /\ UNCHANGED proc
       ELSE /\ proc' = [proc EXCEPT ![p] =
                           [op |-> "update", pc |-> "save", longURL |-> longURL,
                            rec |-> CHOOSE x \in Owned(i, user) : TRUE]]
            /\ last' = NoRet
    /\ UNCHANGED <<now, db, nextId, urlCache, clicksCache, flushTasks,
                   expiredDeletes, warm, resolved, gone, cacheUp, gateVars>>

\* what tx.Save(&url) writes: every column of the record read earlier, with
\* the new long URL
Saved(rec, longURL) == [rec EXCEPT !.longURL = longURL]

\* tx.Save, the cache write, commit.  When the row has gone meanwhile the
\* UPDATE matches nothing; gorm then either leaves it at that or inserts the
\* record again (upsert), depending on its version.
UpdateSave(p, upsert) ==
    /\ proc[p].op = "update" /\ proc[p].pc = "save"
    /\ LET q == proc[p]
           u == Saved(q.rec, q.longURL)
           done(e) == last' = [op |-> "update", id |-> u.id, err |-> e]
           \* the cache write; its error rolls the transaction back
           write(d) ==
               IF cacheUp
               THEN /\ db' = d
                    /\ urlCache' = RedisSet(urlCache, u.code, q.longURL, DefaultCacheTTL)
                    /\ done(ErrNone)
               ELSE /\ UNCHANGED <<db, urlCache>> /\ done(ErrRedis)
       IN  IF ById(u.id) # {}
           THEN /\ ~upsert
                /\ write((db \ ById(u.id)) \cup {u})
           ELSE IF ~upsert
           THEN write(db)
           ELSE IF UniqueViolation(u.code)
           THEN /\ UNCHANGED <<db, urlCache>> /\ done(ErrDuplicateKey)
           ELSE write(db \cup {u})
    /\ proc' = [proc EXCEPT ![p] = Idle]
    /\ UNCHANGED <<now, used, nextId, clicksCache, flushTasks, expiredDeletes,
                   warm, resolved, gone, cacheUp, gateVars>>

(***************************************************************************)
(* GetUserURLsPaginated and GetURLStats                                    *)
(***************************************************************************)
\* Order("created_at DESC"), the later insert first among equal timestamps
Newer(a, b) == a.createdAt > b.createdAt \/ (a.createdAt = b.createdAt /\ a.id > b.id)
RECURSIVE OrderDesc(_)
OrderDesc(S) ==
    IF S = {} THEN <<>>
    ELSE LET top == CHOOSE a \in S : \A b \in S \ {a} : Newer(a, b)
         IN  <<top>> \o OrderDesc(S \ {top})

\* if page < 1 { page = 1 }; if perPage < 1 || perPage > 100 { perPage = 10 }
ClampPage(page) == IF page < 1 THEN 1 ELSE page
ClampPerPage(perPage) == IF perPage < 1 \/ perPage > MaxPerPage THEN DefaultPerPage ELSE perPage

\* Offset((page-1)*perPage).Limit(perPage)
PageOf(rows, page, perPage) ==
    SubSeq(rows, (page - 1) * perPage + 1,
           IF page * perPage < Len(rows) THEN page * perPage ELSE Len(rows))

\* the clicks a list entry reports: the stored value plus the cache counter
MergedClicks(r) ==
    IF cacheUp /\ clicksCache[r.code] # NoCount /\ clicksCache[r.code].n > 0
    THEN r.clicks + clicksCache[r.code].n
    ELSE r.clicks

GetUserURLsPaginated(p, user, page, perPage, maxCalls) ==
    /\ Begun(p, maxCalls)
    /\ LET mine == {r \in db : r.user = user /\ ~r.anon}
           rows == PageOf(OrderDesc(mine), ClampPage(page), ClampPerPage(perPage))
       IN  last' = [op |-> "list", user |-> user, total |-> Cardinality(mine),
                    page |-> page, perPage |-> perPage,
                    offset |-> (ClampPage(page) - 1) * ClampPerPage(perPage),
                    limit |-> ClampPerPage(perPage),
                    items |-> [k \in DOMAIN rows |->
                                  [id |-> rows[k].id, clicks |-> MergedClicks(rows[k]),
                                   n |-> resolved[rows[k].id], base |-> rows[k].base]]]
    /\ UNCHANGED <<now, db, nextId, urlCache, clicksCache, proc, flushTasks,
                   expiredDeletes, warm, resolved, gone, cacheUp, gateVars>>

\* TotalClicks: the cache counter when the key can be read, else the stored value
TotalClicks(r) ==
    IF cacheUp /\ clicksCache[r.code] # NoCount THEN clicksCache[r.code].n ELSE r.clicks

GetURLStats(p, i, maxCalls) ==
    /\ Begun(p, maxCalls)
    /\ IF ById(i) = {}
       THEN last' = [op |-> "stats", id |-> i, err |-> ErrURLNotFound]
       ELSE LET r == CHOOSE x \in ById(i) : TRUE
            IN  last' = [op |-> "stats", id |-> i, err |-> ErrNone,
                         total |-> TotalClicks(r), n |-> resolved[i]]
    /\ UNCHANGED <<now, db, nextId, urlCache, clicksCache, proc, flushTasks,
                   expiredDeletes, warm, resolved, gone, cacheUp, gateVars>>

(***************************************************************************)
(* CacheWarmer.WarmTopURLs                                                 *)
(***************************************************************************)
\* a query that returns only the links clicked at least once, against which
\* C34 is contrasted
WarmClicked == {r \in db : r.clicks > 0}

\* Order("clicks DESC").Limit(1000): a record is left out only when 1000
\* others have at least as many clicks
WarmTop == {r \in db : Cardinality({x \in db : x.clicks > r.clicks}) < WarmLimit}
\* the duration queued with a mapping: time.Until(expiresAt), or 24 hours
WarmTTL(r) == IF r.expiresAt # NoTime THEN r.expiresAt - now ELSE DefaultCacheTTL

\* the query, and the pipeline filled with one SET per record
WarmQuery(maxCalls) ==
    /\ warm.pc = "idle"
    /\ used.calls < maxCalls
    /\ used' = [used EXCEPT !.calls = @ + 1]
    /\ warm' = [pc |-> "exec",
                batch |-> {[code |-> r.code, val |-> r.longURL, ttl |-> WarmTTL(r)] :
                             r \in WarmTop}]
    /\ last' = NoRet
    /\ UNCHANGED <<now, db, nextId, urlCache, clicksCache, proc, flushTasks,
                   expiredDeletes, resolved, gone, cacheUp, gateVars>>

\* pipe.Exec: the queued SETs reach the cache
WarmExec ==
    /\ warm.pc = "exec"
    /\ urlCache' = [c \in CodeSpace |->
                       IF cacheUp /\ \E b \in warm.batch : b.code = c
                       THEN LET b == CHOOSE x \in warm.batch : x.code = c
                            IN  RedisSet(urlCache, c, b.val, b.ttl)[c]
                       ELSE urlCache[c]]
    /\ warm' = WarmIdle
    /\ last' = NoRet
    /\ UNCHANGED <<now, used, db, nextId, clicksCache, proc, flushTasks,
                   expiredDeletes, resolved, gone, cacheUp, gateVars>>

(***************************************************************************)
(* RateLimiterMiddleware and AuthRateLimiterMiddleware                     *)
(***************************************************************************)
\* a key as it is at time t
Lapse(e, t) == IF e.exp # NoTTL /\ e.exp <= t THEN NoKey ELSE e
RateAt(t) ==
    [requests |-> Lapse(rate.requests, t), violations |-> Lapse(rate.violations, t),
     blocked |-> Lapse(rate.blocked, t), auth |-> Lapse(rate.auth, t),
     authBlocked |-> Lapse(rate.authBlocked, t),
     admitted |-> IF Lapse(rate.requests, t) = NoKey THEN 0 ELSE rate.admitted]
\* INCR: a key that does not exist is created without TTL
Incr(e) == [n |-> e.n + 1, exp |-> e.exp]
\* SET key 1 with a TTL, and EXPIRE
SetOne(ttl) == [n |-> 1, exp |-> now + ttl]
ExpireIn(e, ttl) == [e EXCEPT !.exp = now + ttl]

LimitRet(status, why) == [op |-> "limit", status |-> status, why |-> why]
\* c.Next(): the request goes on to its handler
LimitNext(p, r) ==
    /\ rate' = [r EXCEPT !.admitted = @ + 1]
    /\ proc' = [proc EXCEPT ![p] = Idle]
    /\ last' = LimitRet(StatusOK, "next")

\* a request arrives: Exists(rate_limit:blocked:<ip>)
LimitExists(p, maxViolations) ==
    /\ FreeSlot(p)
    /\ rate.violations.n < maxViolations
    /\ IF cacheUp /\ rate.blocked # NoKey
       THEN /\ last' = LimitRet(StatusTooManyRequests, "blocked")
            /\ proc' = proc
       ELSE /\ proc' = [proc EXCEPT ![p] = [op |-> "limit", pc |-> "get", v |-> 0]]
            /\ last' = NoRet
    /\ UNCHANGED <<now, used, urlVars, cacheUp, rate, users>>

\* Get(rate_limit:requests:<ip>) and the three ways on from it; a Redis
\* error lets the request through
LimitGet(p) ==
    /\ proc[p].op = "limit" /\ proc[p].pc = "get"
    /\ IF ~cacheUp
       THEN LimitNext(p, rate)
       ELSE /\ proc' = [proc EXCEPT ![p] =
                   [@ EXCEPT !.pc = IF rate.requests = NoKey THEN "init"
                                    ELSE IF rate.requests.n >= RequestsPerMinute
                                    THEN "violation"
                                    ELSE "incr"]]
            /\ last' = NoRet
            /\ UNCHANGED rate
    /\ UNCHANGED <<now, used, urlVars, cacheUp, users>>

\* first request: Set(limitKey, 1, time.Minute)
LimitInit(p) ==
    /\ proc[p].op = "limit" /\ proc[p].pc = "init"
    /\ LimitNext(p, IF cacheUp THEN [rate EXCEPT !.requests = SetOne(Window)] ELSE rate)
    /\ UNCHANGED <<now, used, urlVars, cacheUp, users>>

\* otherwise: Incr(limitKey), and Expire when the new count is 1
LimitIncr(p) ==
    /\ proc[p].op = "limit" /\ proc[p].pc = "incr"
    /\ LET e == Incr(rate.requests)
       IN  LimitNext(p, IF ~cacheUp THEN rate
                        ELSE [rate EXCEPT !.requests =
                                 IF e.n = 1 THEN ExpireIn(e, Window) ELSE e])
    /\ UNCHANGED <<now, used, urlVars, cacheUp, users>>

\* limit exceeded: Incr(violationKey) and Expire(violationKey, 10 minutes)
LimitViolation(p) ==
    /\ proc[p].op = "limit" /\ proc[p].pc = "violation"
    /\ LET e == ExpireIn(Incr(rate.violations), ViolationsTTL)
       IN  IF cacheUp
           THEN /\ rate' = [rate EXCEPT !.violations = e]
                /\ proc' = [proc EXCEPT ![p] = [@ EXCEPT !.pc = "block", !.v = e.n]]
           ELSE /\ proc' = [proc EXCEPT ![p] = [@ EXCEPT !.pc = "block"]]
                /\ UNCHANGED rate
    /\ last' = NoRet
    /\ UNCHANGED <<now, used, urlVars, cacheUp, users>>

\* a rejection that never blocks, against which C26 is contrasted
LimitReject(p) ==
    /\ proc[p].op = "limit" /\ proc[p].pc = "block"
    /\ proc' = [proc EXCEPT ![p] = Idle]
    /\ last' = LimitRet(StatusTooManyRequests, "exceeded")
    /\ UNCHANGED <<now, used, urlVars, cacheUp, rate, users>>

\* Set(blockKey, 1, config.BlockDuration) after 3 violations; 429
LimitBlock(p) ==
    /\ proc[p].op = "limit" /\ proc[p].pc = "block"
    /\ rate' = IF cacheUp /\ proc[p].v >= ViolationsToBlock
               THEN [rate EXCEPT !.blocked = SetOne(BlockDuration)]
               ELSE rate
    /\ proc' = [proc EXCEPT ![p] = Idle]
    /\ last' = LimitRet(StatusTooManyRequests, "exceeded")
    /\ UNCHANGED <<now, used, urlVars, cacheUp, users>>

AuthRet(status, blocked0) == [op |-> "auth", status |-> status, blocked0 |-> blocked0]
\* c.Next(): the request goes on to the auth handler
AuthNext(p) ==
    /\ proc' = [proc EXCEPT ![p] = Idle]
    /\ last' = AuthRet(StatusOK, proc[p].blocked0)

\* a request to an auth endpoint arrives: Get(rate_limit:auth:<endpoint>:<ip>)
\* and the three ways on from it; a Redis error lets the request through.
\* blocked0 records whether rate_limit:auth_blocked:<ip> existed then.
AuthGet(p) ==
    /\ FreeSlot(p)
    /\ IF ~cacheUp
       THEN /\ proc' = proc
            /\ last' = AuthRet(StatusOK, rate.authBlocked # NoKey)
       ELSE /\ proc' = [proc EXCEPT ![p] =
                   [op |-> "auth", blocked0 |-> rate.authBlocked # NoKey,
                    pc |-> IF rate.auth = NoKey THEN "init"
                           ELSE IF rate.auth.n >= AuthAttempts THEN "block"
                           ELSE "incr"]]
            /\ last' = NoRet
    /\ UNCHANGED <<now, used, urlVars, cacheUp, rate, users>>

\* first attempt: Set(authKey, 1, 15 minutes)
AuthInit(p) ==
    /\ proc[p].op = "auth" /\ proc[p].pc = "init"
    /\ rate' = IF cacheUp THEN [rate EXCEPT !.auth = SetOne(AuthWindow)] ELSE rate
    /\ AuthNext(p)
    /\ UNCHANGED <<now, used, urlVars, cacheUp, users>>

\* otherwise: Incr(authKey)
AuthIncr(p) ==
    /\ proc[p].op = "auth" /\ proc[p].pc = "incr"
    /\ rate' = IF cacheUp THEN [rate EXCEPT !.auth = Incr(rate.auth)] ELSE rate
    /\ AuthNext(p)
    /\ UNCHANGED <<now, used, urlVars, cacheUp, users>>

\* 5 attempts made: Set(rate_limit:auth_blocked:<ip>, 1, 30 minutes); 429
AuthBlock(p) ==
    /\ proc[p].op = "auth" /\ proc[p].pc = "block"
    /\ rate' = IF cacheUp THEN [rate EXCEPT !.authBlocked = SetOne(AuthBlockTTL)]
               ELSE rate
    /\ proc' = [proc EXCEPT ![p] = Idle]
    /\ last' = AuthRet(StatusTooManyRequests, proc[p].blocked0)
    /\ UNCHANGED <<now, used, urlVars, cacheUp, users>>

(***************************************************************************)
(* The environment: the clock and the cache's own evictions                *)
(***************************************************************************)
\* time passes; keys whose TTL has run out are gone.  A step of the clock is
\* minutes long: no request and no warmer run is under way across it, and a
\* flush goroutine (5 seconds at most) has run.
Tick(d, maxTicks) ==
    /\ used.ticks < maxTicks
    /\ \A p \in Procs : proc[p] = Idle
    /\ warm = WarmIdle
    /\ \A c \in CodeSpace : flushTasks[c] = 0
    /\ used' = [used EXCEPT !.ticks = @ + 1]
    /\ now' = now + d
    /\ urlCache' = [c \in CodeSpace |->
                       IF Expired(urlCache[c], now + d) THEN NoEntry ELSE urlCache[c]]
    /\ clicksCache' = [c \in CodeSpace |->
                          IF Expired(clicksCache[c], now + d) THEN NoCount
                          ELSE clicksCache[c]]
    /\ rate' = RateAt(now + d)
    /\ last' = NoRet
    /\ UNCHANGED <<db, nextId, proc, flushTasks, expiredDeletes, warm, resolved, gone,
                   cacheUp, users>>

\* the cache drops a mapping or a counter (memory pressure, restart)
EvictURL(c) ==
    /\ urlCache[c] # NoEntry
    /\ urlCache' = RedisDel(urlCache, c, NoEntry)
    /\ last' = NoRet
    /\ UNCHANGED <<now, used, db, nextId, clicksCache, proc, flushTasks,
                   expiredDeletes, warm, resolved, gone, cacheUp, gateVars>>

EvictClicks(c) ==
    /\ clicksCache[c] # NoCount
    /\ clicksCache' = RedisDel(clicksCache, c, NoCount)
    /\ last' = NoRet
    /\ UNCHANGED <<now, used, db, nextId, urlCache, proc, flushTasks,
                   expiredDeletes, warm, resolved, gone, cacheUp, gateVars>>

(***************************************************************************)
(* Specifications                                                          *)
(***************************************************************************)
\* the handlers, over the request slots P and the inputs given
\* creations with the custom codes C: no code is generated
CustomCreateOps(P, O, L, C, H, maxLinks, maxCalls) ==
    \/ \E p \in P, u \in O, l \in L, c \in C \ {<<>>} :
          \E h \in IF u = NoUser THEN H ELSE {0} :
              CreateBegin(p, u, l, c, h, maxLinks, maxCalls)
    \/ \E p \in P : CreateInsert(p)

\* creations with custom and with generated codes
CreateOps(P, O, L, C, H, maxLinks, maxCalls) ==
    \/ \E p \in P, u \in O, l \in L, c \in C :
          \E h \in IF u = NoUser THEN H ELSE {0} :
              CreateBegin(p, u, l, c, h, maxLinks, maxCalls)
    \/ \E p \in P, c \in GenCodes : CreateGen(p, c)
    \/ \E p \in P : CreateInsert(p)

\* creations through the public route, each asking for the expiry h
PublicCreateOps(P, L, C, h, maxLinks, maxCalls) ==
    \/ \E p \in P, l \in L, c \in C :
          CreateAnonymousHandler(p, l, c, h, maxLinks, maxCalls)
    \/ \E p \in P, c \in GenCodes : CreateGen(p, c)
    \/ \E p \in P : CreateInsert(p)

ResolveOps(P, R, budget, most) ==
    \/ \E p \in P, c \in R : ResolveGet(p, c, budget, most)
    \/ \E p \in P : ResolveQuery(p)
    \/ \E p \in P : ResolveSet(p)
    \/ \E p \in P : ResolveIncr(p)

DeleteOps(P, U, maxCalls) ==
    \/ \E p \in P, u \in U, i \in Ids : DeleteBegin(p, u, i, maxCalls)
    \/ \E p \in P : DeleteCommit(p)

UpdateOps(P, U, L, maxCalls) ==
    \/ \E p \in P, u \in U, i \in Ids, l \in L : UpdateBegin(p, u, i, l, maxCalls)
    \/ \E p \in P, b \in BOOLEAN : UpdateSave(p, b)

ListOps(P, U, Pages, PerPages, maxCalls) ==
    \E p \in P, u \in U, pg \in Pages, pp \in PerPages :
        GetUserURLsPaginated(p, u, pg, pp, maxCalls)

StatsOps(P, maxCalls) == \E p \in P, i \in Ids : GetURLStats(p, i, maxCalls)

FlushOps == \E c \in CodeSpace : FlushTask(c)
ExpiredOps == \E i \in Ids : DeleteExpiredTask(i)
WarmOps(maxCalls) == WarmQuery(maxCalls) \/ WarmExec
TickOps(D, maxTicks) == \E d \in D : Tick(d, maxTicks)

\* Redis stops answering, and answers again; it keeps its keys meanwhile
CacheFail ==
    /\ cacheUp
    /\ cacheUp' = FALSE
    /\ last' = NoRet
    /\ UNCHANGED <<now, used, db, nextId, urlCache, clicksCache, proc, flushTasks,
                   expiredDeletes, warm, resolved, gone, gateVars>>

CacheRecover ==
    /\ ~cacheUp
    /\ cacheUp' = TRUE
    /\ last' = NoRet
    /\ UNCHANGED <<now, used, db, nextId, urlCache, clicksCache, proc, flushTasks,
                   expiredDeletes, warm, resolved, gone, gateVars>>

OutageOps == CacheFail \/ CacheRecover
LimitOps(P, maxViolations) ==
    \/ \E p \in P : LimitExists(p, maxViolations)
    \/ \E p \in P : LimitGet(p)
    \/ \E p \in P : LimitInit(p)
    \/ \E p \in P : LimitIncr(p)
    \/ \E p \in P : LimitViolation(p)
    \/ \E p \in P : LimitBlock(p)

AuthLimitOps(P) ==
    \/ \E p \in P : AuthGet(p)
    \/ \E p \in P : AuthInit(p)
    \/ \E p \in P : AuthIncr(p)
    \/ \E p \in P : AuthBlock(p)

EvictOps == (\E c \in CodeSpace : EvictURL(c)) \/ (\E c \in CodeSpace : EvictClicks(c))

\* Concurrent requests: creation, resolution and deletion in two request
\* slots, with the cache warmer and the cache's evictions
Next ==
    \/ CreateOps(Procs, {"u1"}, {"https://a.example"}, {<<>>, Promo, PromoUpper},
                 {1}, MaxLinks, MaxCalls)
    \/ CreateOps(Procs, {NoUser}, {"https://b.example"}, {<<>>, Promo, PromoUpper},
                 {1}, MaxLinks, MaxCalls)
    \/ ResolveOps(Procs, {Promo}, "calls", MaxCalls)
    \/ DeleteOps(Procs, {"u1"}, MaxCalls)
    \/ WarmOps(MaxCalls)
    \/ EvictOps

Spec == Init /\ [][Next]_vars

\* Expiry: anonymous links over time, one request at a time, with the lazy
\* deletion of expired links and the cache warmer
NextExpiry ==
    \/ CreateOps({1}, {NoUser}, {"https://a.example"}, {<<>>, Promo}, ExpiryInputs,
                 MaxLinks, MaxCalls)
    \/ ResolveOps({1}, {Promo}, "calls", MaxCalls)
    \/ ExpiredOps
    \/ WarmOps(MaxCalls)
    \/ TickOps(TickSteps, ExpiryTicks)

SpecExpiry == Init /\ [][NextExpiry]_vars

\* Click counting: one request at a time on one code, the cache reachable and
\* evicting nothing, with the flush goroutines, updates, deletions, the lazy
\* deletion of expired links and the reads of the click counts
NextClicks ==
    \/ CustomCreateOps({1}, {"u1", NoUser}, {"https://a.example"}, {Promo}, {1},
                       MaxLinks, MaxCalls)
    \/ ResolveOps({1}, {Promo}, "resolves", MaxResolves)
    \/ UpdateOps({1}, {"u1"}, {"https://b.example"}, MaxCalls)
    \/ DeleteOps({1}, {"u1"}, MaxCalls)
    \/ ListOps({1}, {"u1"}, {1}, {DefaultPerPage}, MaxCalls)
    \/ StatsOps({1}, MaxCalls)
    \/ FlushOps
    \/ ExpiredOps
    \/ TickOps(LongSteps, MaxTicks)

SpecClicks == Init /\ [][NextClicks]_vars

(***************************************************************************)
(* Resolution                                                              *)
(***************************************************************************)
\* the GetLongURL call that has just returned was entered while link r was
\* persisted under its code, and r is still persisted and not expired
ResolvedLive(r) ==
    /\ last.op = "resolve" /\ last.lnk = r.id /\ last.code = r.code
    /\ ~IsExpired(r)

\* C1: a GetLongURL call on the code of a link that is persisted and not
\* expired from the call's start to its return returns no error and exactly
\* the long URL the link was created with, on the cache-hit and on the
\* store-read path.
C1_ResolveReturnsLongURL ==
    \A r \in db : ResolvedLive(r) => last.err = ErrNone /\ last.val = r.orig

\* C2: a GetLongURL call that finds a NOT_FOUND or EXPIRED marker under
\* url:<code> returns ErrURLNotFound, never the marker as a long URL.
C2_SentinelIsNotFound ==
    (last.op = "resolve" /\ last.hit \in Sentinels) => last.err = ErrURLNotFound

\* C3: a GetLongURL call on the code of a link that was already expired when
\* the call was entered (and whose code no other link has taken) returns
\* ErrURLNotFound, even while the record is still persisted.
C3_ExpiredIsNotFound ==
    (/\ last.op = "resolve" /\ last.exp0
     /\ \A r \in ByCode(last.code) : r.id = last.lnk)
    => last.err = ErrURLNotFound

(***************************************************************************)
(* Short codes                                                             *)
(***************************************************************************)
\* C9: no two persisted links have the same short code.
C9_ShortCodeUnique ==
    \A a \in db, b \in db : a.code = b.code => a = b

\* two creations raced for one code and the unique index refused the loser
C9_Witness ==
    /\ last.op = "create" /\ last.err = ErrDuplicateKey
    /\ ByCode(last.code) # {}

\* C10: a creation with a custom code that directly follows a successful
\* creation with the same custom code returns ErrShortCodeTaken and leaves
\* the store as it was.
C10_SecondCreateTaken ==
    [][(last'.op = "create" /\ last'.follows)
         => (last'.err = ErrShortCodeTaken /\ db' = db)]_vars

\* the second creation has returned ErrShortCodeTaken, the first link persists
C10_Witness ==
    /\ last.op = "create" /\ last.follows /\ last.err = ErrShortCodeTaken
    /\ ByCode(last.code) # {}

(***************************************************************************)
(* Click counts                                                            *)
(***************************************************************************)
\* C4: the click count GetUserURLsPaginated reports for a link equals the
\* number of GetLongURL calls that returned the link's URL (here for a link
\* whose code had no click counter left in the cache when it was created).
C4_ListReportsN ==
    last.op = "list" =>
        \A k \in DOMAIN last.items :
            last.items[k].base = 0 => last.items[k].clicks = last.items[k].n

\* C5: the TotalClicks GetURLStats reports for a link equals the number of
\* GetLongURL calls that returned the link's URL.
C5_StatsReportsN ==
    (last.op = "stats" /\ last.err = ErrNone) => last.total = last.n

\* C6: once no flush goroutine is pending, the stored clicks of a link (never
\* updated since its creation) equal 10 * floor(N / 10), N being the number
\* of GetLongURL calls that returned the link's URL.
C6_DurableIsFloor ==
    \A r \in db :
        (flushTasks[r.code] = 0 /\ r.longURL = r.orig)
        => r.clicks = BatchSize * (resolved[r.id] \div BatchSize)

\* C7: the stored clicks of a link never exceed the number of GetLongURL
\* calls that returned the link's URL.
C7_NeverDoubleCounted ==
    \A r \in db : r.clicks <= resolved[r.id]

\* C8: no step lowers the stored clicks of a link that stays persisted.
C8_ClicksMonotone ==
    [][\A a \in db : \A b \in db' : b.id = a.id => b.clicks >= a.clicks]_vars

(***************************************************************************)
(* Racing creations                                                        *)
(***************************************************************************)
\* C11: when a creation with a custom code has passed the availability check
\* and its insert finds the code persisted meanwhile, the call persists
\* nothing and returns ErrShortCodeTaken, no other error.
C11_RaceLoserCodeTaken ==
    [][\A p \in Procs :
          (/\ proc[p].op = "create" /\ proc[p].pc = "insert" /\ proc[p].custom
           /\ proc'[p] = Idle
           /\ ByCode(proc[p].code) # {})
          => (db' = db /\ last'.err = ErrShortCodeTaken)]_vars

(***************************************************************************)
(* Deletion                                                                *)
(***************************************************************************)
\* the state after CreateShortURL(u1, "https://a.example", "promo1") and
\* CreateAnonymousURL("https://b.example", "", 168) with generated code
\* aB3xYz, both at time 0: two links persisted and cached
InitLinked ==
    /\ now = 0
    /\ used = [calls |-> 0, ticks |-> 0, resolves |-> 0]
    /\ db = {[id |-> 1, user |-> "u1", longURL |-> "https://a.example", code |-> Promo,
              clicks |-> 0, anon |-> FALSE, expiresAt |-> NoTime, createdAt |-> 0,
              orig |-> "https://a.example", base |-> 0],
             [id |-> 2, user |-> NoUser, longURL |-> "https://b.example",
              code |-> GenOther, clicks |-> 0, anon |-> TRUE,
              expiresAt |-> DefaultExpiryHours * Hour, createdAt |-> 0,
              orig |-> "https://b.example", base |-> 0]}
    /\ nextId = 3
    /\ urlCache = [c \in CodeSpace |->
                      IF c = Promo
                      THEN [val |-> "https://a.example", exp |-> DefaultCacheTTL]
                      ELSE IF c = GenOther
                      THEN [val |-> "https://b.example", exp |-> DefaultExpiryHours * Hour]
                      ELSE NoEntry]
    /\ clicksCache = [c \in CodeSpace |-> NoCount]
    /\ proc = [p \in Procs |-> Idle]
    /\ flushTasks = [c \in CodeSpace |-> 0]
    /\ expiredDeletes = {}
    /\ warm = WarmIdle
    /\ resolved = [i \in Ids |-> 0]
    /\ gone = {}
    /\ cacheUp = TRUE
    /\ rate = NoRate
    /\ users = NoReset
    /\ last = NoRet

\* deletions by the owner and by another user, concurrent with resolutions,
\* the cache warmer and evictions, and followed by listings
NextDelete ==
    \/ DeleteOps(Procs, {"u1", "u2"}, MaxCalls)
    \/ ResolveOps(Procs, {Promo}, "calls", MaxCalls)
    \/ ListOps(Procs, {"u1"}, {1}, {DefaultPerPage}, MaxCalls)
    \/ WarmOps(MaxCalls)
    \/ EvictOps

SpecDelete == InitLinked /\ [][NextDelete]_vars

\* C12: a GetLongURL call entered after DeleteURL removed the link of its
\* code (the code not persisted again since) returns ErrURLNotFound, and a
\* listing made after the deletion does not contain the deleted link.
C12_DeletedIsNotFound ==
    /\ (/\ last.op = "resolve" /\ "deleted" \in last.gone0
        /\ last.lnk = 0 /\ ByCode(last.code) = {})
       => last.err = ErrURLNotFound
    /\ last.op = "list" =>
          \A k \in DOMAIN last.items :
              \A g \in gone : g.how = "deleted" => last.items[k].id # g.id

\* C13: when a step removes a link from the store (DeleteURL's commit or a
\* deleteExpiredURL goroutine), the cache then holds neither url:<code> with
\* the link's long URL nor a clicks:<code> counter.
C13_DeletionClearsCache ==
    [][\A r \in db :
          (~\E x \in db' : x.id = r.id)
          => (/\ urlCache'[r.code].val # r.longURL
              /\ clicksCache'[r.code] = NoCount)]_vars

\* C14: a DeleteURL call goes on to delete only a record with the given id
\* that the caller owns; otherwise (no such record, another owner, an
\* anonymous link) it returns ErrURLNotFound at once, and the step that
\* returns it leaves the store, url:<code> and clicks:<code> as they were.
C14_DeleteNotOwned ==
    [][/\ \A p \in Procs :
             (proc[p] = Idle /\ proc'[p].op = "delete")
             => \E r \in db : /\ r.id = proc'[p].id /\ r.user = proc'[p].user
                              /\ ~r.anon /\ r.user # NoUser
       /\ (last'.op = "delete" /\ last'.err = ErrURLNotFound)
          => (db' = db /\ urlCache' = urlCache /\ clicksCache' = clicksCache)]_vars

\* DeleteURL has returned ErrURLNotFound for a persisted anonymous link,
\* which is still persisted
C14_Witness ==
    /\ last.op = "delete" /\ last.err = ErrURLNotFound
    /\ \E r \in db : r.id = last.id /\ r.anon


\* C15: CreateShortURL with a well-formed custom code returns
\* ErrShortCodeTaken exactly when the store holds a record with that
\* lower-cased code at the time of the check: a call that returns
\* ErrShortCodeTaken found such a record, and a call that goes on to the
\* insert found none.
C15_TakenIffStored ==
    [][/\ (/\ used'.calls = used.calls + 1
           /\ last'.op = "create" /\ last'.err = ErrShortCodeTaken)
          => ByCode(last'.code) # {}
       /\ \A p \in Procs :
             (/\ proc[p] = Idle /\ proc'[p].op = "create"
              /\ proc'[p].custom)
             => ByCode(proc'[p].code) = {}]_vars


\* C16: every GetLongURL call on a code that had no live link when the call
\* was entered (no record under the code, or an expired one) and that no new
\* link has taken has one and the same outcome, whatever the cause and
\* whether it is the first call or a repeated one: ErrURLNotFound and no URL.
C16_FailuresAlike ==
    (/\ last.op = "resolve"
     /\ last.lnk = 0 \/ last.exp0
     /\ \A r \in ByCode(last.code) : r.id = last.lnk)
    => (last.err = ErrURLNotFound /\ last.val = "")


(***************************************************************************)
(* Cache outages                                                           *)
(***************************************************************************)
\* one request at a time against a cache that fails and recovers: creations
\* of promo1 by a user or anonymously, resolutions and the flushes they
\* dispatch
NextOutage ==
    \/ CustomCreateOps({1}, {"u1", NoUser}, {"https://a.example"}, {Promo}, {1},
                       MaxLinks, MaxCalls)
    \/ ResolveOps({1}, {Promo}, "resolves", MaxResolves)
    \/ FlushOps
    \/ OutageOps

SpecOutage == Init /\ [][NextOutage]_vars

\* C17: a GetLongURL call all of whose cache commands fail, on the code of a
\* link that is persisted and not expired from the call's start to its
\* return, returns the link's long URL from the store without error, and its
\* return step changes neither the click counter nor the flushes dispatched
\* nor the store (so the durable clicks stay as they are).
C17_OutageResolves ==
    [][\A p \in Procs :
          (/\ proc[p].op = "resolve" /\ proc'[p] = Idle
           /\ proc[p].outage /\ ~cacheUp)
          => \A r \in db :
                (r.id = proc[p].lnk /\ r.code = proc[p].code /\ ~IsExpired(r))
                => /\ last'.err = ErrNone /\ last'.val = r.longURL
                   /\ db' = db
                   /\ clicksCache' = clicksCache
                   /\ flushTasks' = flushTasks]_vars

\* a GetLongURL call has returned a persisted link's long URL from the store
\* while the cache, which holds earlier clicks of the link, was unreachable
C17_Witness ==
    /\ last.op = "resolve" /\ last.outage /\ ~cacheUp
    /\ last.err = ErrNone
    /\ \E r \in db : /\ r.id = last.lnk /\ last.val = r.longURL
                     /\ clicksCache[r.code].n > 0


\* C18: when the insert of a creation succeeds and the cache write after it
\* fails, the call returns the cache's error and the new record stays
\* persisted.
C18_CacheFailureTolerated ==
    [][\A p \in Procs :
          (/\ proc[p].op = "create" /\ proc[p].pc = "insert" /\ proc'[p] = Idle
           /\ ~UniqueViolation(proc[p].code) /\ ~cacheUp)
          => /\ last'.err = ErrRedis
             /\ \E r \in db' : /\ r.code = proc[p].code
                               /\ r.longURL = proc[p].longURL]_vars


(***************************************************************************)
(* Pagination                                                              *)
(***************************************************************************)
\* a user creates and deletes links and lists them with any page and per_page
NextList ==
    \/ CreateOps({1}, {"u1"}, {"https://a.example"}, {<<>>, Promo}, {1},
                 MaxLinks, MaxCalls)
    \/ DeleteOps({1}, {"u1"}, MaxCalls)
    \/ ListOps({1}, {"u1"}, PageInputs, PerPageInputs, MaxCalls)

SpecList == Init /\ [][NextList]_vars

\* C19: GetUserURLsPaginated takes a perPage above 100 as 100, a perPage below
\* 1 as 10 and a page below 1 as 1, and returns no more links than that.
C19_PaginationClamped ==
    last.op = "list" =>
        /\ last.perPage > MaxPerPage => last.limit = MaxPerPage
        /\ last.perPage < 1 => last.limit = DefaultPerPage
        /\ last.page < 1 => last.offset = 0
        /\ Len(last.items) <= last.limit


(***************************************************************************)
(* Ownership and expiry of a record                                        *)
(***************************************************************************)
\* one request at a time: creations by a user and anonymously with either
\* expiryHours, updates, deletions, resolutions with their lazy deletions of
\* expired links, and the clock
NextFields ==
    \/ CreateOps({1}, {"u1", NoUser}, {"https://a.example"}, {<<>>, Promo},
                 ExpiryInputs, MaxLinks, MaxCalls)
    \/ UpdateOps({1}, {"u1"}, {"https://b.example"}, MaxCalls)
    \/ DeleteOps({1}, {"u1"}, MaxCalls)
    \/ ResolveOps({1}, {Promo}, "calls", MaxCalls)
    \/ ExpiredOps
    \/ TickOps(LongSteps, MaxTicks)

SpecFields == Init /\ [][NextFields]_vars

\* C20: every persisted record is anonymous exactly when it has no owner and
\* exactly when it has an expiresAt; a record inserted by an anonymous
\* creation has expiresAt = createdAt + expiryHours hours (168 hours when
\* expiryHours <= 0); and no step changes isAnonymous, the owner or expiresAt
\* of a record that stays persisted.
C20_OwnerAndExpiryFixed ==
    [][/\ \A r \in db' : /\ r.anon <=> r.user = NoUser
                         /\ r.anon <=> r.expiresAt # NoTime
       /\ \A p \in Procs : \A r \in db' \ db :
             (proc[p].op = "create" /\ proc[p].pc = "insert" /\ r.anon)
             => r.expiresAt = r.createdAt +
                   (IF proc[p].hours > 0 THEN proc[p].hours
                    ELSE DefaultExpiryHours) * Hour
       /\ \A r \in db : \A x \in db' :
             x.id = r.id => /\ x.anon = r.anon /\ x.user = r.user
                            /\ x.expiresAt = r.expiresAt]_vars

\* after the clock has advanced, an anonymous link created with
\* expiryHours = 0 and an owned link whose long URL has been updated are
\* persisted
C20_Witness ==
    \E a \in db, b \in db :
        /\ a.anon /\ a.createdAt > 0
        /\ a.expiresAt = a.createdAt + DefaultExpiryHours * Hour
        /\ ~b.anon /\ b.user = "u1" /\ b.longURL # b.orig


(***************************************************************************)
(* Form of a short code                                                    *)
(***************************************************************************)
\* one request at a time: creations by a user and anonymously with any of
\* the long URLs and custom codes, and deletions
NextCodes ==
    \/ CreateOps({1}, {"u1", NoUser}, LongURLInputs, CustomInputs, {1},
                 MaxLinks, MaxCalls)
    \/ DeleteOps({1}, {"u1"}, MaxCalls)

SpecCodes == Init /\ [][NextCodes]_vars

\* C21: the short code of every persisted link is 6 to 20 characters long
\* and made of letters, digits, hyphen and underscore only.
C21_CodeWellFormed ==
    \A r \in db : /\ Len(r.code) >= GeneratedLen /\ Len(r.code) <= MaxCodeLen
                  /\ \A i \in DOMAIN r.code : r.code[i] \in PatternChars


(***************************************************************************)
(* Lazy deletion of expired links                                          *)
(***************************************************************************)
\* every deleteExpiredURL goroutine that has been started runs
SpecExpiryFair == SpecExpiry /\ \A i \in Ids : WF_vars(DeleteExpiredTask(i))

\* C22: once a GetLongURL call that missed the cache has found a link
\* expired and handed it to a deleteExpiredURL goroutine, the store
\* eventually holds no record of the link; and such a call returns
\* ErrURLNotFound, whether the goroutine has run or not.
C22_ExpiredEventuallyDeleted ==
    /\ \A i \in Ids : (i \in expiredDeletes) ~> (ById(i) = {})
    /\ [](/\ last.op = "resolve" /\ last.hit = NoEntry.val /\ last.exp0
          /\ \A r \in ByCode(last.code) : r.id = last.lnk
          => last.err = ErrURLNotFound)

\* a GetLongURL call has returned ErrURLNotFound for an expired link whose
\* record is still persisted, its deletion pending
C22_Witness ==
    /\ last.op = "resolve" /\ last.hit = NoEntry.val /\ last.exp0
    /\ last.err = ErrURLNotFound
    /\ last.lnk \in expiredDeletes
    /\ ById(last.lnk) # {}


\* C23: no step changes the long URL of a record that stays persisted.
C23_LongURLImmutable ==
    [][\A r \in db : \A x \in db' : x.id = r.id => x.longURL = r.longURL]_vars


(***************************************************************************)
(* Expiry asked for on the public route                                    *)
(***************************************************************************)
\* one request at a time: anonymous creations through POST /api/urls with
\* expiry_hours = RequestedHours, resolutions, and the clock
NextPublic ==
    \/ PublicCreateOps({1}, {"https://a.example"}, {<<>>, Promo}, RequestedHours,
                       MaxLinks, MaxCalls)
    \/ ResolveOps({1}, {Promo}, "calls", MaxCalls)
    \/ TickOps(LongSteps, ExpiryTicks)

SpecPublic == Init /\ [][NextPublic]_vars

\* C24: a GetLongURL call on an anonymous link created through the public
\* route with expiry_hours = h returns the link's long URL while the clock
\* is within h hours of the creation, and ErrURLNotFound once it is past
\* them.
C24_RequestedExpiryApplies ==
    [][\A p \in Procs :
          (proc[p].op = "resolve" /\ proc'[p] = Idle)
          => \A r \in db :
                (r.id = proc[p].lnk /\ r.code = proc[p].code /\ r.anon)
                => IF now > r.createdAt + RequestedHours * Hour
                   THEN last'.err = ErrURLNotFound
                   ELSE last'.err = ErrNone /\ last'.val = r.longURL]_vars


(***************************************************************************)
(* Rate limits                                                             *)
(***************************************************************************)
\* requests of one client IP, two of them handled at a time, and the clock
NextRate ==
    \/ LimitOps(Procs, MaxViolations)
    \/ TickOps(RateSteps, MaxTicks)

SpecRate == Init /\ [][NextRate]_vars

\* C25: while a counter rate_limit:requests:<ip> lives, the limiter lets at
\* most RequestsPerMinute requests of the IP through.
C25_AtMostLimitAdmitted == rate.admitted <= RequestsPerMinute


\* C26: the request that counts the IP's third violation within the
\* violations window sets the block for BlockDuration from that moment;
\* every request that arrives while the block stands is rejected with 429
\* and changes none of the limiter's keys; and the block stands unchanged
\* until BlockDuration has passed, when it ends.
C26_BlockedForBlockDuration ==
    [][/\ \A p \in Procs :
             (/\ proc[p].op = "limit" /\ proc[p].pc = "block" /\ proc'[p] = Idle
              /\ proc[p].v >= ViolationsToBlock)
             => rate'.blocked = [n |-> 1, exp |-> now + BlockDuration]
       /\ \A p \in Procs :
             (proc[p] = Idle /\ proc'[p] # Idle /\ proc'[p].op = "limit")
             => rate.blocked = NoKey
       /\ (rate.blocked # NoKey /\ proc' = proc /\ last'.op = "limit")
          => (last'.status = StatusTooManyRequests /\ rate' = rate)
       /\ rate.blocked # NoKey
          => IF now' >= rate.blocked.exp
             THEN rate'.blocked = NoKey
             ELSE rate'.blocked = rate.blocked]_vars

\* a minute into the block a request of the IP has been rejected as blocked
C26_Witness ==
    /\ last = LimitRet(StatusTooManyRequests, "blocked")
    /\ rate.blocked # NoKey
    /\ now > 0


\* requests of one client IP to an auth endpoint, two of them handled at a
\* time, and the clock
NextAuthRate ==
    \/ AuthLimitOps(Procs)
    \/ TickOps(AuthSteps, ExpiryTicks)

SpecAuthRate == Init /\ [][NextAuthRate]_vars

\* C27: a request to an auth endpoint that arrives while the auth block of
\* its IP stands (it was set less than 30 minutes before) is rejected with
\* 429.
C27_AuthBlockedRejected ==
    (last.op = "auth" /\ last.blocked0) => last.status = StatusTooManyRequests


(***************************************************************************)
(* Password reset (AuthService and AuthHandler)                            *)
(***************************************************************************)
ErrInvalidToken == "ErrInvalidToken"
StatusInternalServerError == 500
MsgIfExists == "If the email exists, a password reset link has been sent"
MsgSent == "Password reset email has been sent successfully"
MsgSendFailed == "failed to send email"
RegisteredEmail == "user@example.com"
EmailInputs == {RegisteredEmail, "nobody@example.com"}
PasswordInputs == {"new1", "new2"}
ResetTokenTTL == Hour
\* clock advances while a reset token lives: within and past its hour
ResetSteps == {SentinelTTL, ResetTokenTTL}

\* the columns of the users row that the password reset reads and writes
Row(u) == [password |-> u.password, resetToken |-> u.resetToken,
           resetTokenExpiry |-> u.resetTokenExpiry]
\* db.Save(&user): every column of the row is written from the struct
SaveUser(row) == [users EXCEPT !.password = row.password,
                               !.resetToken = row.resetToken,
                               !.resetTokenExpiry = row.resetTokenExpiry]

ForgotRet(email, status, message) ==
    [op |-> "forgot", email |-> email, status |-> status, message |-> message]
ResetRet(token, err, spent) ==
    [op |-> "reset", token |-> token, err |-> err, spent |-> spent]

\* ForgotPassword calls RequestPasswordReset, which selects the user by
\* email: an unknown email gets "", nil and the handler answers at once
ForgotBegin(p, email, maxCalls) ==
    /\ Begun(p, maxCalls)
    /\ IF email # RegisteredEmail
       THEN /\ proc' = proc
            /\ last' = ForgotRet(email, StatusOK, MsgIfExists)
       ELSE /\ proc' = [proc EXCEPT ![p] =
                   [op |-> "forgot", pc |-> "save", email |-> email,
                    user |-> Row(users)]]
            /\ last' = NoRet
    /\ UNCHANGED <<now, urlVars, cacheUp, gateVars>>

\* RequestPasswordReset generates the token, saves the user with it and with
\* its expiry an hour ahead, and caches it (a failure of the cache is only
\* logged); the handler finds the user again and sends the email
ForgotSave(p, delivered) ==
    /\ proc[p] # Idle
    /\ proc[p].op = "forgot"
    /\ LET t == users.issued + 1
           row == [proc[p].user EXCEPT !.resetToken = t,
                                       !.resetTokenExpiry = now + ResetTokenTTL]
       IN users' = [SaveUser(row) EXCEPT !.issued = t]
    /\ proc' = [proc EXCEPT ![p] = Idle]
    /\ last' = IF delivered
               THEN ForgotRet(proc[p].email, StatusOK, MsgSent)
               ELSE ForgotRet(proc[p].email, StatusInternalServerError, MsgSendFailed)
    /\ UNCHANGED <<now, used, urlVars, cacheUp, rate>>

\* WHERE reset_token = ? AND reset_token_expiry > now
TokenMatches(token) ==
    /\ users.resetToken = token
    /\ users.resetTokenExpiry > now

\* ResetPassword selects the user by the token; no row is ErrInvalidToken
ResetBegin(p, token, newPassword, maxCalls) ==
    /\ Begun(p, maxCalls)
    /\ IF ~TokenMatches(token)
       THEN /\ proc' = proc
            /\ last' = ResetRet(token, ErrInvalidToken, users.succeeded[token] > 0)
       ELSE /\ proc' = [proc EXCEPT ![p] =
                   [op |-> "reset", pc |-> "save", token |-> token,
                    spent |-> users.succeeded[token] > 0,
                    user |-> [Row(users) EXCEPT !.password = newPassword,
                                                !.resetToken = 0,
                                                !.resetTokenExpiry = NoTime]]]
            /\ last' = NoRet
    /\ UNCHANGED <<now, urlVars, cacheUp, gateVars>>

\* ResetPassword saves the user it selected, with the new password and
\* without the token, deletes the cached keys and returns nil
ResetSave(p) ==
    /\ proc[p] # Idle
    /\ proc[p].op = "reset"
    /\ users' = [SaveUser(proc[p].user) EXCEPT
                    !.succeeded[proc[p].token] = @ + 1]
    /\ proc' = [proc EXCEPT ![p] = Idle]
    /\ last' = ResetRet(proc[p].token, ErrNone, proc[p].spent)
    /\ UNCHANGED <<now, used, urlVars, cacheUp, rate>>

ResetOps(P, maxCalls) ==
    \E p \in P :
        \/ \E e \in EmailInputs : ForgotBegin(p, e, maxCalls)
        \/ \E d \in BOOLEAN : ForgotSave(p, d)
        \/ \E t \in Tokens, w \in PasswordInputs : ResetBegin(p, t, w, maxCalls)
        \/ ResetSave(p)

NextReset ==
    \/ ResetOps(Procs, MaxCalls)
    \/ TickOps(ResetSteps, MaxTicks)

SpecReset == Init /\ [][NextReset]_vars

\* C28: a reset token is single-use: of all the ResetPassword calls made with
\* one token, concurrent ones included, at most one returns nil, and a call
\* begun after one has succeeded fails with ErrInvalidToken.
C28_TokenSingleUse ==
    /\ \A t \in Tokens : users.succeeded[t] <= 1
    /\ (last.op = "reset" /\ last.spent) => last.err = ErrInvalidToken


\* C29: the answer of ForgotPassword does not tell whether the email is
\* registered: whenever the email, if one was sent, was delivered, the
\* status and the message are those an unregistered email gets.
C29_ForgotReplyAlike ==
    (last.op = "forgot" /\ last.message # MsgSendFailed)
        => (last.status = StatusOK /\ last.message = MsgIfExists)


(***************************************************************************)
(* Click batching under concurrent resolutions                             *)
(***************************************************************************)
\* concurrent resolutions of one persisted code in two request slots, with
\* the flush goroutines they dispatch and the cache's evictions
NextFlush ==
    \/ ResolveOps(Procs, {Promo}, "resolves", MaxResolves)
    \/ FlushOps
    \/ EvictOps

SpecFlush == InitLinked /\ [][NextFlush]_vars

\* the step brings the counter clicks:<c> to a multiple of the batch size
ReachesBatch(c) ==
    /\ clicksCache'[c].n # clicksCache[c].n
    /\ clicksCache'[c].n > 0
    /\ clicksCache'[c].n % BatchSize = 0

\* C30: however concurrent resolutions of one code interleave, a step that
\* brings the cached counter to a multiple of 10 dispatches exactly one flush
\* and no other step dispatches any; a flush that runs adds exactly 10 to
\* the stored clicks of the code's link, the stored clicks change in no other
\* way, and the flush leaves the cached counter as it was.
C30_OneFlushPerBatch ==
    [][\A c \in CodeSpace :
          /\ ReachesBatch(c) => flushTasks'[c] = flushTasks[c] + 1
          /\ ~ReachesBatch(c) => flushTasks'[c] \in {flushTasks[c], flushTasks[c] - 1}
          /\ flushTasks'[c] = flushTasks[c] - 1
                => /\ clicksCache' = clicksCache
                   /\ \A r \in db : r.code = c =>
                          \E s \in db' : s.id = r.id /\ s.clicks = r.clicks + BatchSize
          /\ (\E r \in db, s \in db' :
                  s.id = r.id /\ r.code = c /\ s.clicks # r.clicks)
                => flushTasks'[c] = flushTasks[c] - 1]_vars

\* the counter of the code has reached 10 and its flush has run, while a
\* resolution begun beside another one is still under way
C30_Witness ==
    /\ clicksCache[Promo].n = BatchSize
    /\ flushTasks[Promo] = 0
    /\ \E r \in db : r.code = Promo /\ r.clicks = BatchSize
    /\ proc[1] = Idle
    /\ proc[2] # Idle /\ proc[2].op = "resolve"


(***************************************************************************)
(* Flushes against an unreachable store                                    *)
(***************************************************************************)
\* resolutions of one persisted code past two batches, whose flush
\* goroutines find the store reachable or not
NextFlushFail ==
    \/ ResolveOps({1}, {Promo}, "resolves", MaxResolves + BatchSize)
    \/ FlushOps
    \/ \E c \in CodeSpace : FlushFail(c)
    \/ \E c \in CodeSpace : EvictURL(c)

SpecFlushFail == InitLinked /\ [][NextFlushFail]_vars

\* C31: a flush goroutine that ends, the store reachable or not, returns
\* nothing to any caller; it either leaves the stored clicks as they were or
\* adds exactly 10 to those of the code's link, never more, and it is not
\* run again: only a counter reaching a multiple of 10 dispatches a flush.
C31_FailedFlushDropped ==
    [][\A c \in CodeSpace :
          /\ flushTasks'[c] < flushTasks[c]
                => /\ flushTasks'[c] = flushTasks[c] - 1
                   /\ last' = NoRet
                   /\ proc' = proc
                   /\ \/ db' = db
                      \/ \A r \in db : r.code = c =>
                            \E s \in db' : s.id = r.id /\ s.clicks = r.clicks + BatchSize
          /\ flushTasks'[c] > flushTasks[c] => ReachesBatch(c)
          /\ \A r \in db, s \in db' :
                s.id = r.id => s.clicks \in {r.clicks, r.clicks + BatchSize}]_vars

\* the flush at 10 failed and the flush at 20 has run: the stored clicks are
\* 10, not 20
C31_Witness ==
    /\ clicksCache[Promo].n = 2 * BatchSize
    /\ flushTasks[Promo] = 0
    /\ \E r \in db : r.code = Promo /\ r.clicks = BatchSize


C33_MappingWithinExpiry ==
    \A r \in db :
        (urlCache[r.code] # NoEntry /\ urlCache[r.code].val = r.longURL)
        => /\ urlCache[r.code].exp # NoTTL
           /\ urlCache[r.code].exp <=
                 (IF r.expiresAt # NoTime THEN r.expiresAt ELSE now + DefaultCacheTTL)


(***************************************************************************)
(* The cache warmer                                                        *)
(***************************************************************************)
\* runs of the cache warmer over two persisted links, between resolutions,
\* evictions and the passing of time
NextWarm ==
    \/ WarmOps(MaxCalls)
    \/ ResolveOps({1}, {Promo, GenOther}, "resolves", MaxCalls)
    \/ EvictOps
    \/ TickOps(LongSteps, MaxTicks)

SpecWarm == InitLinked /\ [][NextWarm]_vars

\* the links that fewer than 1000 others exceed in stored clicks
TopLinks(store) ==
    {r \in store : Cardinality({x \in store : x.clicks > r.clicks}) < WarmLimit}

NextGen ==
    \/ CreateOps({1}, {NoUser}, {"https://a.example"}, {<<>>, Promo}, {1},
                 MaxLinks, MaxCalls)
    \/ \E c \in GenCodes : CreateGenErr(1, c)
    \/ ResolveOps({1}, {Promo, GenOther}, "calls", MaxCalls)
    \/ EvictOps

SpecGen == Init /\ [][NextGen]_vars

\* C35: generateUniqueShortCode makes at most 10 attempts; the step in which
\* it returns a code finds that code neither cached nor persisted, and the
\* step in which it returns ErrGenerateShortCode is the tenth attempt, all
\* candidate codes being taken.
C35_GeneratorProbes ==
    [][\A p \in Procs :
          (proc[p] # Idle /\ proc[p].op = "create" /\ proc[p].pc = "gen")
          => /\ proc[p].i < MaxAttempts
             /\ (proc'[p] # Idle /\ proc'[p].pc = "insert")
                   => ~isShortCodeTaken(proc'[p].code)
             /\ (last'.op = "create" /\ last'.err = ErrGenerateShortCode)
                   => /\ proc[p].i = MaxAttempts - 1
                      /\ \E c \in GenCodes : isShortCodeTaken(c)]_vars


(***************************************************************************)
(* The clicks of a new link                                                *)
(***************************************************************************)
\* C36: GetURLStats and GetUserURLsPaginated, called as the step that follows
\* the successful return of a creation, report 0 clicks for the link just
\* created, whatever happened under its code before.
C36_NewLinkHasNoClicks ==
    [][(last.op = "create" /\ last.err = ErrNone)
          => /\ (last'.op = "stats" /\ last'.err = ErrNone /\ last'.id = last.id)
                   => last'.total = 0
             /\ last'.op = "list"
                   => \A k \in DOMAIN last'.items :
                          last'.items[k].id = last.id => last'.items[k].clicks = 0]_vars


(***************************************************************************)
(* A resolution racing a creation                                          *)
(***************************************************************************)
\* C37: once a creation has returned, url:<code> never holds the NOT_FOUND or
\* EXPIRED marker while the link of that code is persisted and not expired,
\* however a resolution that missed the cache interleaves with the creation.
C37_NoMarkerOverLiveLink ==
    \A r \in db : ~IsExpired(r) => urlCache[r.code].val \notin Sentinels


(***************************************************************************)
(* The TTL of the auth attempts key                                        *)
(***************************************************************************)
\* the attempts key reaches the end of its TTL while a request that has read
\* it is still being handled: the request arrived just before the expiry
AuthKeyLapse(maxTicks) ==
    /\ used.ticks < maxTicks
    /\ rate.auth # NoKey /\ rate.auth.exp # NoTTL /\ rate.auth.exp > now
    /\ \E p \in Procs : proc[p] # Idle /\ proc[p].op = "auth"
    /\ used' = [used EXCEPT !.ticks = @ + 1]
    /\ now' = rate.auth.exp
    /\ rate' = RateAt(rate.auth.exp)
    /\ last' = NoRet
    /\ UNCHANGED <<urlVars, proc, cacheUp, users>>

\* requests of one client IP to an auth endpoint, and the clock, which may
\* pass the expiry of the attempts key during a request
NextAuthLapse ==
    \/ AuthLimitOps(Procs)
    \/ TickOps(AuthSteps, ExpiryTicks)
    \/ AuthKeyLapse(ExpiryTicks)

SpecAuthLapse == Init /\ [][NextAuthLapse]_vars

\* C38: the key rate_limit:auth:<endpoint>:<ip>, whenever it exists, has a
\* TTL, which ends no later than 15 minutes from now.
C38_AuthKeyExpires ==
    rate.auth # NoKey
        => (rate.auth.exp # NoTTL /\ rate.auth.exp <= now + AuthWindow)

=============================================================================
